---- MODULE Spec2Model ----
(***************************************************************************)
(* A model of pl_2025_26_prediction.py: the match parser, the season       *)
(* summariser, the training set builder, the ranking of the predicted      *)
(* table and the driver's truncation.                                      *)
(*                                                                         *)
(*   SpecParse     parse_match_results on a table of score fields          *)
(*   SpecSeason    summarise_season on a table of parsed matches           *)
(*   SpecDefaults  a season over a fixed fixture list, then the            *)
(*                 promoted-team default of prepare_training_data          *)
(*   SpecTrain     prepare_training_data on a list of season files, up to  *)
(*                 main's call of build_and_train_model                    *)
(*   SpecPredict   predict_league_table from the expected positions on,    *)
(*                 and main's truncated report                             *)
(*                                                                         *)
(* The classifier is not modelled: its expected positions are inputs.      *)
(***************************************************************************)
EXTENDS Integers, Sequences, FiniteSets, TLC

\* ------------------------------------------------------------------ bounds
\* SpecSeason: the teams, the goals a side scores and the rows of a table.
NumTeams == 3
MaxGoals == 1
MaxMatches == 2
\* SpecParse: the rows of a table and the characters of a score field.
MaxRows == 2
MaxFieldLen == 5
\* SpecTrain: the season files.
MaxSeasons == 3
\* SpecPredict: the clubs of the most recent season.
MaxLatest == 20

\* predictions.iloc[:20]
DivisionSize == 20

TeamNames ==
    <<"Arsenal", "Chelsea", "Burnley", "Leeds United", "Sunderland",
      "Everton">>
Teams == {TeamNames[i] : i \in 1..NumTeams}
Goals == 0..MaxGoals

VARIABLES
    pc,         \* position of the running function
    teams,      \* summarise_season: the defaultdict, in insertion order
    referenced, \* the team names read from the match table so far
    decisive,   \* number of rows read with home_goals # away_goals
    drawn,      \* number of rows read with home_goals = away_goals
    summary,    \* summarise_season: the returned standings
    default_features, \* prepare_training_data: the promoted-team default
    season_files,     \* prepare_training_data: the match table of each file
    season_summaries, \* prepare_training_data: the standings of each file
    pair_i,           \* prepare_training_data: the loop index i
    feature_rows,     \* prepare_training_data: feature_rows
    target_rows,      \* prepare_training_data: target_rows
    latest_features,  \* prepare_training_data: latest_features_rows
    FT,               \* parse_match_results: the score column of df
    goals,            \* parse_match_results: the split score table
    home_goals,       \* parse_match_results: the column home_goals
    away_goals,       \* parse_match_results: the column away_goals
    features_index,   \* predict_league_table: the team of each feature row
    exp_positions,    \* predict_league_table: probas.dot(classes)
    prediction,       \* predict_league_table: the returned table
    printed           \* main: the rows printed

seasonVars == <<teams, referenced, decisive, drawn, summary>>
trainVars == <<season_files, season_summaries, pair_i, feature_rows,
               target_rows, latest_features>>
parseVars == <<FT, goals, home_goals, away_goals>>
predictVars == <<features_index, exp_positions, prediction, printed>>
vars == <<pc, seasonVars, default_features, trainVars, parseVars, predictVars>>

\* ------------------------------------------------------- sequence helpers
\* A stable sort of s.  before holds the pairs <<j, i>> of places whose
\* keys put s[j] strictly before s[i]: an element goes after every element
\* that is before it and after every earlier element of equal keys.
StableSort(s, before) ==
    LET n == Len(s)
        rank(i) == 1 + Cardinality({j \in 1..n :
                        \/ <<j, i>> \in before
                        \/ (<<i, j>> \notin before /\ j < i)})
    IN  [r \in 1..n |-> s[CHOOSE i \in 1..n : rank(i) = r]]

RECURSIVE SumOver(_, _)
SumOver(s, f) == IF s = <<>> THEN 0 ELSE s[1][f] + SumOver(Tail(s), f)

\* The variables of prepare_training_data while it does not run.
TrainIdle ==
    /\ season_files = <<>>
    /\ season_summaries = <<>>
    /\ pair_i = 0
    /\ feature_rows = <<>>
    /\ target_rows = <<>>
    /\ latest_features = <<>>

\* The variables of predict_league_table and of main's report while they do
\* not run.
PredictIdle ==
    /\ features_index = <<>>
    /\ exp_positions = <<>>
    /\ prediction = <<>>
    /\ printed = <<>>

\* The variables of parse_match_results while it does not run.
ParseIdle ==
    /\ FT = <<>>
    /\ goals = <<>>
    /\ home_goals = <<>>
    /\ away_goals = <<>>

\* ----------------------------------------------------- parse_match_results
\* A score field is a string, kept as the sequence of its characters, or is
\* missing (NaN).
Missing == <<"NaN">>
DigitChars == <<"0", "1", "2", "3", "4", "5", "6", "7", "8", "9">>
IsDigit(c) == \E d \in 1..10 : DigitChars[d] = c
DigitValue(c) == (CHOOSE d \in 1..10 : DigitChars[d] = c) - 1

\* str.split("-") of one string: the pieces between the dashes.
RECURSIVE SplitDash(_)
SplitDash(str) ==
    IF \A k \in 1..Len(str) : str[k] # "-"
    THEN <<str>>
    ELSE LET d == CHOOSE k \in 1..Len(str) :
                    str[k] = "-" /\ \A j \in 1..(k - 1) : str[j] # "-"
         IN  <<SubSeq(str, 1, d - 1)>>
                \o SplitDash(SubSeq(str, d + 1, Len(str)))

Pieces(field) == IF field = Missing THEN <<>> ELSE SplitDash(field)

MaxOf(S) == IF S = {} THEN 0 ELSE CHOOSE m \in S : \A x \in S : x <= m

\* The number of columns of str.split("-", expand=True): the most pieces
\* any row has.
NumColumns(column) ==
    MaxOf({Len(Pieces(column[r])) : r \in 1..Len(column)})

\* str.split("-", expand=True): one row per field, short rows and missing
\* fields filled with missing cells.
Expand(column) ==
    [r \in 1..Len(column) |->
        [c \in 1..NumColumns(column) |->
            IF c <= Len(Pieces(column[r])) THEN Pieces(column[r])[c]
            ELSE Missing]]

\* The .str accessor is refused on a column with no string in it.
StrAccessorFails(column) ==
    Len(column) >= 1 /\ \A r \in 1..Len(column) : column[r] = Missing

\* int() of a cell's text; whitespace, signs and underscores, which int()
\* also reads, are not in the alphabet of the model.
IntParseable(cell) ==
    cell # Missing /\ Len(cell) >= 1 /\ \A k \in 1..Len(cell) : IsDigit(cell[k])

RECURSIVE IntValue(_)
IntValue(cell) ==
    IF cell = <<>> THEN 0
    ELSE 10 * IntValue(SubSeq(cell, 1, Len(cell) - 1))
         + DigitValue(cell[Len(cell)])

\* goals[c] exists and .astype(int) reads every cell of it.
CastFails(table, column, c) ==
    \/ NumColumns(column) < c
    \/ \E r \in 1..Len(table) : ~IntParseable(table[r][c])

CastColumn(table, c) == [r \in 1..Len(table) |-> IntValue(table[r][c])]

\* goals = df["FT"].str.split("-", expand=True)
SplitScores ==
    /\ pc = "split"
    /\ IF StrAccessorFails(FT)
       THEN pc' = "raised" /\ goals' = goals
       ELSE pc' = "cast_home" /\ goals' = Expand(FT)
    /\ UNCHANGED <<FT, home_goals, away_goals, seasonVars, default_features,
                   trainVars, predictVars>>

\* df["home_goals"] = goals[0].astype(int)
CastHome ==
    /\ pc = "cast_home"
    /\ IF CastFails(goals, FT, 1)
       THEN pc' = "raised" /\ home_goals' = home_goals
       ELSE pc' = "cast_away" /\ home_goals' = CastColumn(goals, 1)
    /\ UNCHANGED <<FT, goals, away_goals, seasonVars, default_features,
                   trainVars, predictVars>>

\* df["away_goals"] = goals[1].astype(int), and the return.
CastAway ==
    /\ pc = "cast_away"
    /\ IF CastFails(goals, FT, 2)
       THEN pc' = "raised" /\ away_goals' = away_goals
       ELSE pc' = "returned" /\ away_goals' = CastColumn(goals, 2)
    /\ UNCHANGED <<FT, goals, home_goals, seasonVars, default_features,
                   trainVars, predictVars>>

Alphabet == {"1", "-", "x"}
ScoreFields ==
    {Missing} \cup UNION {[1..n -> Alphabet] : n \in 0..MaxFieldLen}

ParseInit ==
    /\ pc = "split"
    /\ FT \in UNION {[1..n -> ScoreFields] : n \in 0..MaxRows}
    /\ goals = <<>>
    /\ home_goals = <<>>
    /\ away_goals = <<>>
    /\ teams = <<>>
    /\ referenced = {}
    /\ decisive = 0
    /\ drawn = 0
    /\ summary = <<>>
    /\ default_features = <<>>
    /\ TrainIdle
    /\ PredictIdle

ParseNext == SplitScores \/ CastHome \/ CastAway

SpecParse == ParseInit /\ [][ParseNext]_vars

\* ------------------------------------------------------- summarise_season
NewStats(team) ==
    [team |-> team, points |-> 0, wins |-> 0, draws |-> 0, losses |-> 0,
     goals_for |-> 0, goals_against |-> 0]

HasTeam(t, team) == \E i \in 1..Len(t) : t[i].team = team

\* teams[team]: a first access inserts the default entry at the end.
Touch(t, team) == IF HasTeam(t, team) THEN t ELSE Append(t, NewStats(team))

\* teams[team][f] += v
Add(t, team, f, v) ==
    LET u == Touch(t, team)
    IN  [i \in 1..Len(u) |->
            IF u[i].team = team THEN [u[i] EXCEPT ![f] = @ + v] ELSE u[i]]

UpdateGoals(t, home, away, hg, ag) ==
    Add(Add(Add(Add(t, home, "goals_for", hg),
                home, "goals_against", ag),
            away, "goals_for", ag),
        away, "goals_against", hg)

HomeWin(t, home, away) ==
    Add(Add(Add(t, home, "points", 3), home, "wins", 1), away, "losses", 1)

AwayWin(t, home, away) ==
    Add(Add(Add(t, away, "points", 3), away, "wins", 1), home, "losses", 1)

\* A draw that credits the home side only.
DrawOnePoint(t, home, away) ==
    Add(Add(t, home, "points", 1), home, "draws", 1)

Draw(t, home, away) ==
    Add(Add(Add(Add(t, home, "points", 1), away, "points", 1),
            home, "draws", 1),
        away, "draws", 1)

UpdateOutcome(t, home, away, hg, ag) ==
    IF hg > ag THEN HomeWin(t, home, away)
    ELSE IF hg < ag THEN AwayWin(t, home, away)
    ELSE Draw(t, home, away)

\* The body of the loop over matches.iterrows().
MatchUpdate(t, home, away, hg, ag) ==
    UpdateOutcome(UpdateGoals(t, home, away, hg, ag), home, away, hg, ag)

\* One iteration of the loop, on a row read from the match table.
PlayMatch(home, away, hg, ag) ==
    /\ pc = "loop"
    /\ teams' = MatchUpdate(teams, home, away, hg, ag)
    /\ referenced' = referenced \cup {home, away}
    /\ decisive' = IF hg # ag THEN decisive + 1 ELSE decisive
    /\ drawn' = IF hg = ag THEN drawn + 1 ELSE drawn
    /\ UNCHANGED <<pc, summary, default_features, trainVars, parseVars,
                   predictVars>>

\* A row of a match table of at most MaxMatches rows over Teams.
ProcessMatch(home, away, hg, ag) ==
    /\ decisive + drawn < MaxMatches
    /\ PlayMatch(home, away, hg, ag)

\* The two tallies added instead of subtracted.
GoalDiffSum(stats) == stats.goals_for + stats.goals_against

GoalDiff(stats) == stats.goals_for - stats.goals_against

\* The rows of pd.DataFrame(data), in the dictionary's order.
SummaryData(t) ==
    [i \in 1..Len(t) |->
        [team |-> t[i].team, points |-> t[i].points, wins |-> t[i].wins,
         draws |-> t[i].draws, losses |-> t[i].losses,
         goals_for |-> t[i].goals_for, goals_against |-> t[i].goals_against,
         goal_diff |-> GoalDiff(t[i])]]

\* The order without its third key, goals_for.
StandingsBeforeTwoKeys(a, b) ==
    \/ a.points > b.points
    \/ (a.points = b.points /\ a.goal_diff > b.goal_diff)

\* a sorts before b with ascending=[False, False, False].
StandingsBefore(a, b) ==
    \/ a.points > b.points
    \/ (a.points = b.points /\ a.goal_diff > b.goal_diff)
    \/ (a.points = b.points /\ a.goal_diff = b.goal_diff
        /\ a.goals_for > b.goals_for)

\* sort_values(...).reset_index(drop=True), then position = index + 1.
SortStandings(data) ==
    LET before == {p \in (1..Len(data)) \X (1..Len(data)) :
                        StandingsBefore(data[p[1]], data[p[2]])}
        sorted == StableSort(data, before)
    IN  [i \in 1..Len(sorted) |->
            [team |-> sorted[i].team, points |-> sorted[i].points,
             wins |-> sorted[i].wins, draws |-> sorted[i].draws,
             losses |-> sorted[i].losses, goals_for |-> sorted[i].goals_for,
             goals_against |-> sorted[i].goals_against,
             goal_diff |-> sorted[i].goal_diff, position |-> i]]

\* The end of the loop: build, sort and number the standings, and return.
\* A table of no row has no column to sort by: sort_values raises KeyError.
BuildSummary ==
    /\ pc = "loop"
    /\ IF teams = <<>>
       THEN pc' = "raised" /\ summary' = summary
       ELSE pc' = "done" /\ summary' = SortStandings(SummaryData(teams))
    /\ UNCHANGED <<teams, referenced, decisive, drawn, default_features,
                   trainVars, parseVars, predictVars>>

SeasonInit ==
    /\ pc = "loop"
    /\ teams = <<>>
    /\ referenced = {}
    /\ decisive = 0
    /\ drawn = 0
    /\ summary = <<>>
    /\ default_features = <<>>
    /\ TrainIdle
    /\ ParseIdle
    /\ PredictIdle

SeasonNext ==
    \/ \E home \in Teams, away \in Teams, hg \in Goals, ag \in Goals :
          ProcessMatch(home, away, hg, ag)
    \/ BuildSummary

SpecSeason == SeasonInit /\ [][SeasonNext]_vars

\* ------------------------------------------- promoted-team default features
FeatureKeys == {"points", "wins", "draws", "losses", "goals_for",
                "goals_against", "goal_diff"}

\* The features are integers and means of at most three integers: every
\* feature value is kept in sixths, so that a mean is exact.
Whole(v) == 6 * v

\* a sorts before b with ascending=[True, True, True].
WorstFirst(a, b) ==
    \/ a.points < b.points
    \/ (a.points = b.points /\ a.goal_diff < b.goal_diff)
    \/ (a.points = b.points /\ a.goal_diff = b.goal_diff
        /\ a.goals_for < b.goals_for)

FirstRows(s, n) == SubSeq(s, 1, IF Len(s) < n THEN Len(s) ELSE n)

\* prev_summary.sort_values([...], ascending=[True, True, True]).head(3)
BottomThree(standings) ==
    LET before == {p \in (1..Len(standings)) \X (1..Len(standings)) :
                        WorstFirst(standings[p[1]], standings[p[2]])}
    IN  FirstRows(StableSort(standings, before), 3)

\* DataFrame.mean() of one column, in sixths.
Mean(rows, k) == (6 * SumOver(rows, k)) \div Len(rows)

\* bottom_three.mean().to_dict(), the keys that are read.
DefaultFeatures(standings) ==
    LET bottom_three == BottomThree(standings)
    IN  [k \in FeatureKeys |-> Mean(bottom_three, k)]

\* prepare_training_data's default for the reference season just summarised.
ComputeDefaults ==
    /\ pc = "done"
    /\ default_features' = DefaultFeatures(summary)
    /\ pc' = "defaults"
    /\ UNCHANGED <<seasonVars, trainVars, parseVars, predictVars>>

\* The team columns of the reference season's match table: two clubs that
\* meet home and away, two more that meet three times.
Fixtures ==
    << <<"Arsenal", "Chelsea">>, <<"Chelsea", "Arsenal">>,
       <<"Burnley", "Everton">>, <<"Everton", "Burnley">>,
       <<"Burnley", "Everton">> >>

\* The next row of the reference season, with any score.
ScheduledMatch(hg, ag) ==
    /\ decisive + drawn < Len(Fixtures)
    /\ PlayMatch(Fixtures[decisive + drawn + 1][1],
                 Fixtures[decisive + drawn + 1][2], hg, ag)

DefaultsNext ==
    \/ \E hg \in Goals, ag \in Goals : ScheduledMatch(hg, ag)
    \/ BuildSummary
    \/ ComputeDefaults

SpecDefaults == SeasonInit /\ [][DefaultsNext]_vars

\* -------------------------------------------------- prepare_training_data
\* summarise_season as a function of the parsed match table.
RECURSIVE Accumulate(_, _)
Accumulate(t, rows) ==
    IF rows = <<>> THEN t
    ELSE Accumulate(MatchUpdate(t, rows[1].home, rows[1].away,
                                rows[1].hg, rows[1].ag), Tail(rows))

SummariseSeason(rows) == SortStandings(SummaryData(Accumulate(<<>>, rows)))

ScoreColumn(raw) == [r \in 1..Len(raw) |-> raw[r].ft]

ParseFails(raw) ==
    \/ StrAccessorFails(ScoreColumn(raw))
    \/ CastFails(Expand(ScoreColumn(raw)), ScoreColumn(raw), 1)
    \/ CastFails(Expand(ScoreColumn(raw)), ScoreColumn(raw), 2)

\* parse_match_results as a function of a table it accepts.
ParseMatchResults(raw) ==
    LET table == Expand(ScoreColumn(raw))
        home_column == CastColumn(table, 1)
        away_column == CastColumn(table, 2)
    IN  [r \in 1..Len(raw) |->
            [home |-> raw[r].team1, away |-> raw[r].team2,
             hg |-> home_column[r], ag |-> away_column[r]]]

RowOf(standings, team) ==
    standings[CHOOSE k \in 1..Len(standings) : standings[k].team = team]

\* prev_summary.loc[team][[...]].to_dict()
RealFeatures(row) == [k \in FeatureKeys |-> Whole(row[k])]

\* The default for every team, whether or not season i has a row for it.
AlwaysDefault(prev, team) == DefaultFeatures(prev)

\* The features of a team of season i+1, from season i.
TeamFeatures(prev, team) ==
    IF HasTeam(prev, team) THEN RealFeatures(RowOf(prev, team))
    ELSE DefaultFeatures(prev)

PairFeatures(prev, curr) ==
    [k \in 1..Len(curr) |-> TeamFeatures(prev, curr[k].team)]

PairTargets(curr) == [k \in 1..Len(curr) |-> curr[k].position]

\* promoted = ["Leeds United", "Burnley", "Sunderland"]
Promoted == <<"Leeds United", "Burnley", "Sunderland">>

RealRows(last) ==
    [k \in 1..Len(last) |->
        [team |-> last[k].team, feats |-> RealFeatures(last[k])]]

\* A default row for every promoted team, without the membership test.
PromotedRowsUnchecked(last) ==
    [k \in 1..Len(Promoted) |->
        [team |-> Promoted[k], feats |-> DefaultFeatures(last)]]

\* The rows added for the promoted teams that are not in latest_teams.
PromotedRows(last) ==
    LET Absent(team) == ~HasTeam(last, team)
        absent == SelectSeq(Promoted, Absent)
    IN  [k \in 1..Len(absent) |->
            [team |-> absent[k], feats |-> DefaultFeatures(last)]]

LatestRows(last) == RealRows(last) \o PromotedRows(last)

AllLoaded == Len(season_summaries) = Len(season_files)

\* One iteration of the loop over season_files: read, parse, summarise.
LoadSeason ==
    /\ pc = "prepare"
    /\ ~AllLoaded
    /\ LET raw == season_files[Len(season_summaries) + 1]
       IN  IF ParseFails(raw)
           THEN pc' = "raised" /\ season_summaries' = season_summaries
           ELSE /\ pc' = pc
                /\ season_summaries' =
                    Append(season_summaries,
                           SummariseSeason(ParseMatchResults(raw)))
    /\ UNCHANGED <<season_files, pair_i, feature_rows, target_rows,
                   latest_features, default_features, seasonVars, parseVars,
                   predictVars>>

\* One iteration of the loop over range(len(files_sorted) - 1).
PairStep ==
    /\ pc = "prepare"
    /\ AllLoaded
    /\ pair_i < Len(season_files) - 1
    /\ LET prev == season_summaries[pair_i + 1]
           curr == season_summaries[pair_i + 2]
       IN  /\ default_features' = DefaultFeatures(prev)
           /\ feature_rows' = feature_rows \o PairFeatures(prev, curr)
           /\ target_rows' = target_rows \o PairTargets(curr)
    /\ pair_i' = pair_i + 1
    /\ UNCHANGED <<pc, season_files, season_summaries, latest_features,
                   seasonVars, parseVars, predictVars>>

\* After the loop: the features of the most recent season and of the
\* promoted teams, and the return.  files_sorted[-1] of no file is an
\* IndexError.
BuildLatest ==
    /\ pc = "prepare"
    /\ AllLoaded
    /\ pair_i >= Len(season_files) - 1
    /\ IF Len(season_files) = 0
       THEN /\ pc' = "raised"
            /\ UNCHANGED <<default_features, latest_features>>
       ELSE LET last == season_summaries[Len(season_files)]
            IN  /\ default_features' = DefaultFeatures(last)
                /\ latest_features' = LatestRows(last)
                /\ pc' = "returned"
    /\ UNCHANGED <<season_files, season_summaries, pair_i, feature_rows,
                   target_rows, seasonVars, parseVars, predictVars>>

\* main: build_and_train_model(X_train, y_train) is called.
TrainModel ==
    /\ pc = "returned"
    /\ pc' = "training"
    /\ UNCHANGED <<seasonVars, default_features, trainVars, parseVars,
                   predictVars>>

Row(home, away, ft) == [team1 |-> home, team2 |-> away, ft |-> ft]

\* The team columns of the season files: a season of two clubs and a season
\* of four.
FixtureLists ==
    { << <<"Arsenal", "Burnley">> >>,
      << <<"Arsenal", "Chelsea">>, <<"Leeds United", "Everton">> >> }

\* One score per result: a home win, a draw, an away win.
Scores == { <<"1", "-", "0">>, <<"0", "-", "0">>, <<"0", "-", "1">> }

SeasonFiles ==
    UNION { { [r \in 1..Len(fl) |-> Row(fl[r][1], fl[r][2], sc[r])] :
                sc \in [1..Len(fl) -> Scores] } : fl \in FixtureLists }

TrainInit ==
    /\ pc = "prepare"
    /\ season_files \in UNION {[1..n -> SeasonFiles] : n \in 0..MaxSeasons}
    /\ season_summaries = <<>>
    /\ pair_i = 0
    /\ feature_rows = <<>>
    /\ target_rows = <<>>
    /\ latest_features = <<>>
    /\ default_features = <<>>
    /\ teams = <<>>
    /\ referenced = {}
    /\ decisive = 0
    /\ drawn = 0
    /\ summary = <<>>
    /\ ParseIdle
    /\ PredictIdle

TrainNext == LoadSeason \/ PairStep \/ BuildLatest \/ TrainModel

SpecTrain == TrainInit /\ [][TrainNext]_vars

\* ------------------------------------------- predict_league_table and main
MinOf(S) == CHOOSE m \in S : \A x \in S : m <= x

\* The orders in which rows left can follow one another with the scores
\* ascending: any row of the least score may come next.
RECURSIVE AscendingOrders(_, _)
AscendingOrders(scores, left) ==
    IF left = {} THEN {<<>>}
    ELSE LET least == MinOf({scores[k] : k \in left})
         IN  UNION { { <<k>> \o rest :
                        rest \in AscendingOrders(scores, left \ {k}) } :
                     k \in {j \in left : scores[j] = least} }

\* sort_values("expected_position"): the default kind is quicksort, which
\* is not stable; the order of rows of equal score is the build's.
SortOutcomes(scores) == AscendingOrders(scores, 1..Len(scores))

\* The sorted table with predicted_rank = index + 1.
RankedTable(index, scores, order) ==
    [r \in 1..Len(order) |->
        [predicted_rank |-> r, team |-> index[order[r]],
         expected_position |-> scores[order[r]]]]

\* predict_league_table, from the expected positions on.
Predict ==
    /\ pc = "predict"
    /\ \E order \in SortOutcomes(exp_positions) :
          prediction' = RankedTable(features_index, exp_positions, order)
    /\ pc' = "predicted"
    /\ UNCHANGED <<features_index, exp_positions, printed, seasonVars,
                   default_features, trainVars, parseVars>>

\* predictions.iloc[1:21], a slice that starts one row late.
TruncateSkipFirst(table) ==
    SubSeq(table, 2, IF Len(table) < DivisionSize + 1 THEN Len(table)
                     ELSE DivisionSize + 1)

\* predictions.iloc[:20]
Truncate(table) == FirstRows(table, DivisionSize)

\* main: truncate the table and print a line per row; the line shows the
\* expected position to two decimals, the rows keep it as it is.
Report ==
    /\ pc = "predicted"
    /\ printed' = Truncate(prediction)
    /\ pc' = "printed"
    /\ UNCHANGED <<features_index, exp_positions, prediction, seasonVars,
                   default_features, trainVars, parseVars>>

\* The feature table: the clubs of the most recent season, named by number,
\* then the promoted teams that are not among them.  The season has within
\* two of the division's clubs, as the seasons of the driver have, so that
\* the table is long enough for quicksort to partition it.
FeatureIndex(clubs, added) ==
    [k \in 1..(clubs + added) |->
        IF k <= clubs THEN ToString(k) ELSE Promoted[k - clubs]]

\* Expected positions of the model: the clubs get distinct scores, rising,
\* falling, or rising with the first two level; the added teams have the
\* same features, hence one score, which may be level with a club's.
ClubScore(pattern, clubs, k) ==
    CASE pattern = "rising" -> 2 * k
      [] pattern = "falling" -> 2 * (clubs + 1 - k)
      [] pattern = "level" -> IF k = 1 THEN 4 ELSE 2 * k

ExpectedPositions(pattern, clubs, added, shared) ==
    [k \in 1..(clubs + added) |->
        IF k <= clubs THEN ClubScore(pattern, clubs, k) ELSE shared]

PredictInit ==
    /\ pc = "predict"
    /\ \E clubs \in (DivisionSize - 2)..MaxLatest, added \in 0..Len(Promoted),
          pattern \in {"rising", "falling", "level"} :
        \E shared \in 1..(2 * clubs + 1) :
            /\ features_index = FeatureIndex(clubs, added)
            /\ exp_positions =
                  ExpectedPositions(pattern, clubs, added, shared)
    /\ prediction = <<>>
    /\ printed = <<>>
    /\ teams = <<>>
    /\ referenced = {}
    /\ decisive = 0
    /\ drawn = 0
    /\ summary = <<>>
    /\ default_features = <<>>
    /\ TrainIdle
    /\ ParseIdle

PredictNext == Predict \/ Report

SpecPredict == PredictInit /\ [][PredictNext]_vars

\* ------------------------------------------------ season summariser claims
\* C1: after every prefix of the match table the points accumulated over all
\* teams equal 3 x (decisive matches) + 2 x (drawn matches), and so does the
\* sum of the points column of the returned standings.
C1_PointsConservation ==
    /\ SumOver(teams, "points") = 3 * decisive + 2 * drawn
    /\ (pc = "done" => SumOver(summary, "points") = 3 * decisive + 2 * drawn)

C1_Witness == pc = "done" /\ decisive >= 1 /\ drawn >= 1

\* C7: the returned standings carry positions 1..N without gap or repeat; a
\* team with more points has the strictly smaller position, on equal points
\* the higher goal_diff has it, on equal points and goal_diff the higher
\* goals_for has it.
C7_StandingsOrder ==
    pc = "done" =>
        /\ {summary[k].position : k \in 1..Len(summary)} = 1..Len(summary)
        /\ \A a, b \in 1..Len(summary) :
            /\ (a # b => summary[a].position # summary[b].position)
            /\ (summary[a].points > summary[b].points
                    => summary[a].position < summary[b].position)
            /\ (summary[a].points = summary[b].points
                 /\ summary[a].goal_diff > summary[b].goal_diff
                    => summary[a].position < summary[b].position)
            /\ (summary[a].points = summary[b].points
                 /\ summary[a].goal_diff = summary[b].goal_diff
                 /\ summary[a].goals_for > summary[b].goals_for
                    => summary[a].position < summary[b].position)

\* Two teams level on points and goal_diff that goals_for separates, the
\* later one in the dictionary having scored more.
C7_Witness ==
    /\ pc = "done"
    /\ \E a, b \in 1..Len(teams) :
        /\ a < b
        /\ teams[a].points = teams[b].points
        /\ GoalDiff(teams[a]) = GoalDiff(teams[b])
        /\ teams[a].goals_for < teams[b].goals_for

\* C9: the returned standings have exactly one row per distinct team name
\* read as home or away, and every row has goal_diff = goals_for -
\* goals_against.
C9_OneRowPerTeam ==
    pc = "done" =>
        /\ {summary[k].team : k \in 1..Len(summary)} = referenced
        /\ Len(summary) = Cardinality(referenced)
        /\ \A k \in 1..Len(summary) :
              summary[k].goal_diff
                  = summary[k].goals_for - summary[k].goals_against

C9_Witness ==
    /\ pc = "done"
    /\ Cardinality(referenced) = 3
    /\ \E k \in 1..Len(summary) : summary[k].goal_diff < 0

\* ------------------------------------------------- default feature claims
\* The rows of the standings that hold the three largest positions.
LowestRanked(standings) ==
    SubSeq(standings, Len(standings) - 2, Len(standings))

\* C2: the promoted-team default of a reference season is the field-wise
\* mean of the three teams that hold the three largest positions of the
\* season's standings.
C2_DefaultIsBottomThreeMean ==
    (pc = "defaults" /\ Len(summary) >= 3) =>
        \A k \in FeatureKeys :
            default_features[k] = Mean(LowestRanked(summary), k)

\* ------------------------------------------------------------ parser claims
\* A score field of exactly two integer-parseable pieces, "<int>-<int>".
WellFormed(field) ==
    /\ field # Missing
    /\ Len(SplitDash(field)) = 2
    /\ IntParseable(SplitDash(field)[1])
    /\ IntParseable(SplitDash(field)[2])

\* C5: parse_match_results returns home_goals and away_goals only when
\* every row's score is "<int>-<int>"; any other row makes it fail.
C5_ReturnsOnlyWellFormed ==
    pc = "returned" => \A r \in 1..Len(FT) : WellFormed(FT[r])

\* ------------------------------------------------ training set claims
\* The number of examples the first p season pairs contribute.
RECURSIVE Offset(_)
Offset(p) == IF p = 0 THEN 0 ELSE Offset(p - 1) + Len(season_summaries[p + 1])

\* C3: every consecutive pair (season i, season i+1) contributes one example
\* per team of season i+1, in standing order; the label is the team's
\* position in season i+1, and a team with a row in season i has exactly
\* season i's statistics as its features.
C3_ExamplesPerPair ==
    /\ Len(feature_rows) = Offset(pair_i)
    /\ Len(target_rows) = Offset(pair_i)
    /\ \A p \in 1..pair_i :
        LET prev == season_summaries[p]
            curr == season_summaries[p + 1]
        IN  \A k \in 1..Len(curr) :
              /\ target_rows[Offset(p - 1) + k] = curr[k].position
              /\ \A j \in 1..Len(prev) :
                    prev[j].team = curr[k].team =>
                        \A f \in FeatureKeys :
                            feature_rows[Offset(p - 1) + k][f] = 6 * prev[j][f]

\* Two pairs are done; in the second a team stays whose statistics differ
\* from the default, and another team is promoted.
C3_Witness ==
    /\ pc = "returned"
    /\ pair_i = 2
    /\ \E k \in 1..Len(season_summaries[3]) :
        /\ HasTeam(season_summaries[2], season_summaries[3][k].team)
        /\ feature_rows[Offset(1) + k] # DefaultFeatures(season_summaries[2])
    /\ \E k \in 1..Len(season_summaries[3]) :
        ~HasTeam(season_summaries[2], season_summaries[3][k].team)

PromotedNames == {Promoted[k] : k \in 1..Len(Promoted)}

\* C6: the inference table names every team at most once: one row of real
\* statistics per team of the most recent standings, then one row of the
\* default per promoted team that is absent from them; a promoted team that
\* is in the most recent standings keeps its real row and gets no other.
C6_NoTeamTwice ==
    pc \in {"returned", "training"} =>
        LET last == season_summaries[Len(season_files)]
            n == Len(latest_features)
            lastNames == {last[k].team : k \in 1..Len(last)}
        IN  /\ \A a, b \in 1..n :
                a # b => latest_features[a].team # latest_features[b].team
            /\ n = Len(last) + Cardinality(PromotedNames \ lastNames)
            /\ \A k \in 1..Len(last) :
                /\ latest_features[k].team = last[k].team
                /\ \A f \in FeatureKeys :
                      latest_features[k].feats[f] = 6 * last[k][f]
            /\ {latest_features[k].team : k \in (Len(last) + 1)..n}
                  = PromotedNames \ lastNames
            /\ \A k \in (Len(last) + 1)..n :
                  latest_features[k].feats = DefaultFeatures(last)

\* A promoted-list team is in the most recent standings with statistics that
\* differ from the default, and another promoted-list team is absent.
C6_Witness ==
    /\ pc = "returned"
    /\ LET last == season_summaries[Len(season_files)]
       IN  /\ \E k \in 1..Len(last) :
                /\ last[k].team \in PromotedNames
                /\ RealFeatures(last[k]) # DefaultFeatures(last)
           /\ \E t \in PromotedNames : ~HasTeam(last, t)

\* C4: with fewer than two seasons the builder does not return a training
\* set, and model training is not reached.
C4_FailsBelowTwoSeasons ==
    Len(season_files) < 2 => pc \notin {"returned", "training"}

\* -------------------------------------------------- ranking claims
Range(s) == {s[k] : k \in 1..Len(s)}

\* The feature row a row of the predicted table comes from.
SourceRow(team) ==
    CHOOSE k \in 1..Len(features_index) : features_index[k] = team

\* C8: predicted_rank 1..N is a permutation of the input teams with
\* expected_position non-decreasing in the rank, and teams of equal
\* expected_position keep the order they have in the feature table.
C8_StableRanking ==
    pc = "predicted" =>
        /\ Len(prediction) = Len(features_index)
        /\ {prediction[r].team : r \in 1..Len(prediction)}
              = Range(features_index)
        /\ \A r \in 1..Len(prediction) :
            /\ prediction[r].predicted_rank = r
            /\ prediction[r].expected_position
                  = exp_positions[SourceRow(prediction[r].team)]
        /\ \A a, b \in 1..Len(prediction) :
            /\ (a < b => prediction[a].expected_position
                            <= prediction[b].expected_position)
            /\ (a < b /\ prediction[a].expected_position
                            = prediction[b].expected_position
                  => SourceRow(prediction[a].team)
                        < SourceRow(prediction[b].team))

\* C10: of more than 20 candidates the driver reports exactly 20, of 20 or
\* fewer all; the reported rows carry ranks 1, 2, ... in order, and no
\* unreported team has a strictly lower expected_position than a reported
\* one.
C10_Truncation ==
    pc = "printed" =>
        LET n == Len(features_index)
            m == Len(printed)
            reported == {printed[r].team : r \in 1..m}
        IN  /\ m = (IF n > 20 THEN 20 ELSE n)
            /\ Cardinality(reported) = m
            /\ reported \subseteq Range(features_index)
            /\ \A r \in 1..m :
                /\ printed[r].predicted_rank = r
                /\ printed[r].expected_position
                      = exp_positions[SourceRow(printed[r].team)]
            /\ \A k \in 1..n :
                features_index[k] \notin reported =>
                    \A r \in 1..m :
                        exp_positions[k] >= printed[r].expected_position

\* More than 20 candidates, and the last reported team is level with one
\* that is not reported.
C10_Witness ==
    /\ pc = "printed"
    /\ Len(features_index) > 20
    /\ Len(printed) = 20
    /\ \E k \in 1..Len(features_index) :
        /\ \A r \in 1..Len(printed) : printed[r].team # features_index[k]
        /\ exp_positions[k] = printed[20].expected_position

====
